---- MODULE Spec2Model ----
(***************************************************************************)
(* Model of Ripal_tests/extraction/batch_refiner.py: the batch refiner     *)
(* (AdvancedDocumentRefiner) as a state machine, and of                    *)
(* Ripal_tests/extraction/gsap_batch_scraper_sequential.py: the sequential *)
(* scraper, whose state is the variable scraper; and of                    *)
(* Ripal_tests/extraction/gsap_model_comparison.py: the model comparison,  *)
(* whose state is the variable comparison.                                 *)
(*                                                                         *)
(* One process run is main(): construction, run_batch_processing (setup,   *)
(* selection of the work items, one process_single_file task per item      *)
(* behind the semaphore, collection of the results in completion order),   *)
(* generate_report and print_progress_summary.  The tasks are asyncio      *)
(* coroutines on one thread: a task's step runs from one await to the      *)
(* next, and the steps of different tasks interleave freely.               *)
(*                                                                         *)
(* File names are sequences of the tokens that '_' separates, plus the     *)
(* extension, so that the split/join/rsplit arithmetic of                  *)
(* get_files_to_process is computed and not assumed.                       *)
(***************************************************************************)
EXTENDS Integers, Sequences, FiniteSets

(***************************************************************************)
(* Bounds of the model.                                                    *)
(***************************************************************************)
\* Largest number of files the input directory holds.
MaxFiles == 2
\* Size of the permit pool.  The source sets self.max_parallel = 5
\* (batch_refiner.py:91); the model scales the pool down so that a run of
\* MaxFiles items exhausts it (the pool stays smaller than the work list
\* when both are raised).
max_parallel == 1
\* The readings of the clock are 1..MaxClock.
MaxClock == 1
\* Number of process runs over the same directories (SpecRerun).
MaxRuns == 2
\* Number of get_next_model calls on one refiner (SpecRotation).
MaxCalls == 6
\* Largest result collection handed to generate_report (SpecReport).
MaxResults == 2
\* Number of URLs of the sequential scraper's list (the source lists 10).
MaxUrls == 2
\* Number of models of the model comparison's table (the source lists 6).
MaxModels == 4

(***************************************************************************)
(* File names.                                                             *)
(***************************************************************************)
FileName(parts, ext) == [parts |-> parts, ext |-> ext]

TxtName(parts) == FileName(parts, ".txt")

\* Python's None in an Optional[str] field.
NoFile == FileName(<<>>, "")
NoError == "None"

\* f.startswith('refined_')
StartsWithRefined(f) == Len(f.parts) >= 2 /\ f.parts[1] = "refined"

\* f.endswith('.txt')
EndsWithTxt(f) == f.ext = ".txt"

\* datetime.now().strftime('%Y%m%d_%H%M%S'): two tokens, the date and the
\* time of day.  The readings of one model run fall on one day.
Timestamp(t) == <<"20250101", IF t = 1 THEN "120000"
                               ELSE IF t = 2 THEN "120001"
                               ELSE IF t = 3 THEN "120002" ELSE "120003">>

(***************************************************************************)
(* Backends.                                                               *)
(***************************************************************************)
ModelConfig(name, short_name, provider, delay) ==
    [name |-> name, short_name |-> short_name, provider |-> provider,
     rate_limit_delay |-> delay]

all_models ==
    << ModelConfig("gemini-2.5-pro", <<"gemini", "25", "pro">>, "gemini", 8),
       ModelConfig("deepseek/deepseek-r1-0528-qwen3-8b:free",
                   <<"deepseek", "qwen3", "8b">>, "openrouter", 8),
       ModelConfig("deepseek/deepseek-r1-0528:free",
                   <<"deepseek", "r1">>, "openrouter", 8),
       ModelConfig("meta-llama/llama-3.1-405b-instruct:free",
                   <<"llama", "405b">>, "openrouter", 8),
       ModelConfig("mistralai/mistral-small-3.1-24b-instruct:free",
                   <<"mistral", "small">>, "openrouter", 8) >>

Modes == {"all", "gemini", "openrouter"}

(***************************************************************************)
(* State.                                                                  *)
(***************************************************************************)
VARIABLES
    HAS_GEMINI,            \* module flag: google.generativeai imported
    HAS_OPENAI,            \* module flag: openai imported
    mode,                  \* the mode main() derives from the arguments
    input_dir,             \* [exists, files]: the listing of self.input_dir
    output_dir,            \* set of the file names in self.output_dir
    now,                   \* the wall clock
    run,                   \* number of the process run over the directories
    pc,                    \* position of main() / run_batch_processing()
    models,                \* self.models
    current_model_index,   \* self.current_model_index (0-based, as in the source)
    results,               \* self.results
    sem_value,             \* self.semaphore._value
    sem_waiters,           \* self.semaphore._waiters: tasks queued in acquire()
    files_to_process,      \* the work items run_batch_processing selected
    task,                  \* per item: the process_single_file coroutine's frame
    done,                  \* as_completed's queue of finished tasks' results
    report,                \* what generate_report wrote, NoReport before
    summary,               \* what print_progress_summary printed
    rotation_log,          \* history: the calls of get_next_model, in order
    prev_results,          \* history: self.results of the previous run
    scraper,               \* the state of the sequential scraper's process
    comparison             \* the state of the model comparison's process

vars == << HAS_GEMINI, HAS_OPENAI, mode, input_dir, output_dir, now, run, pc,
           models, current_model_index, results, sem_value, sem_waiters,
           files_to_process, task, done, report, summary, rotation_log,
           prev_results, scraper, comparison >>

\* What no step of a refiner run changes.
env_vars == << HAS_GEMINI, HAS_OPENAI, mode, input_dir, prev_results, scraper,
              comparison >>

(***************************************************************************)
(* ProcessingResult (batch_refiner.py:45-53).  content_length, the size of *)
(* the backend's opaque answer, is not modelled.                           *)
(***************************************************************************)
ProcessingResult(filename, model_used, success, output_file, error, ptime) ==
    [filename |-> filename, model_used |-> model_used, success |-> success,
     output_file |-> output_file, error |-> error, processing_time |-> ptime]

(***************************************************************************)
(* __init__ and setup_clients: the backend list.                           *)
(***************************************************************************)
\* Mutant of ModeFilter: the mode is ignored.
ModeFilter_KeepsAll(m) == all_models

\* __init__, lines 80-86: filter models based on mode.
ModeFilter(m) ==
    IF m = "gemini"
    THEN SelectSeq(all_models, LAMBDA c: c.provider = "gemini")
    ELSE IF m = "openrouter"
    THEN SelectSeq(all_models, LAMBDA c: c.provider = "openrouter")
    ELSE all_models

\* Mutant of AvailableModels: the backends are not filtered by the client
\* libraries.
AvailableModels_Unfiltered(ms, gem, oai) == ms

\* setup_clients, lines 121-129: filter models based on available clients.
AvailableModels(ms, gem, oai) ==
    SelectSeq(ms, LAMBDA c: \/ (c.provider = "gemini" /\ gem)
                            \/ (c.provider = "openrouter" /\ oai))

(***************************************************************************)
(* get_next_model (lines 153-157).  The index is 0-based as in the source; *)
(* Sequences are 1-based, hence the + 1 in the look-up.                    *)
(***************************************************************************)
\* Mutant of NextIndex: the index wraps one position early.
NextIndex_WrapsEarly(idx, n) == IF idx + 2 >= n THEN 0 ELSE idx + 1

\* Mutant of NextIndex: the index does not advance.
NextIndex_Stuck(idx, n) == idx

\* Line 156.
NextIndex(idx, n) == (idx + 1) % n

\* Mutant of ModelAt: the first backend whatever the index.
ModelAt_First(ms, idx) == ms[1]

\* Line 155.
ModelAt(ms, idx) == ms[idx + 1]

\* One call of get_next_model by caller: the model at the index is handed
\* out and the index advances, in one step without an await.
Rotate(caller) ==
    /\ rotation_log' = Append(rotation_log,
                              [item |-> caller,
                               model |-> ModelAt(models, current_model_index)])
    /\ current_model_index' = NextIndex(current_model_index, Len(models))

(***************************************************************************)
(* get_files_to_process (lines 164-188).                                   *)
(***************************************************************************)
\* Lines 179-182, for a name f of the output directory that starts with
\* 'refined_' and splits into at least 3 parts: join parts[2:], delete
\* '.txt', cut the text after the last '_' (the whole text is kept when it
\* holds no '_'), append '.txt'.
OriginalOf(f) ==
    LET rest == SubSeq(f.parts, 3, Len(f.parts))
        n == Len(rest)
        \* the last part carries the extension unless replace() deleted it
        last == IF f.ext = ".txt" THEN rest[n] ELSE rest[n] \o f.ext
    IN  IF n >= 2 THEN TxtName(SubSeq(rest, 1, n - 1))
                  ELSE TxtName(<<last>>)

\* Lines 174-183.
ProcessedFiles(out) ==
    { OriginalOf(f) : f \in { g \in out : StartsWithRefined(g) /\ Len(g.parts) >= 3 } }

\* Mutant of GetFilesToProcess: the listing is not filtered by extension
\* and marker.
GetFilesToProcess_Unfiltered(inp, out) ==
    IF ~inp.exists THEN <<>>
    ELSE SelectSeq(inp.files, LAMBDA f: f \notin ProcessedFiles(out))

\* Lines 166-171 and 185-188.
GetFilesToProcess(inp, out) ==
    IF ~inp.exists THEN <<>>
    ELSE LET all_files == SelectSeq(inp.files,
                              LAMBDA f: EndsWithTxt(f) /\ ~StartsWithRefined(f))
         IN  SelectSeq(all_files, LAMBDA f: f \notin ProcessedFiles(out))

(***************************************************************************)
(* process_single_file, lines 308-310: the output file name.               *)
(* os.path.splitext(filename)[0] is the name without its extension.        *)
(***************************************************************************)
\* Mutant of OutputFilename: the base name is left out.
OutputFilename_NoBaseName(short_name, filename, t) ==
    TxtName(<<"refined">> \o short_name \o Timestamp(t))

OutputFilename(short_name, filename, t) ==
    TxtName(<<"refined">> \o short_name \o filename.parts \o Timestamp(t))

\* generate_report, lines 346-347.
ReportFilename(t) == TxtName(<<"batch", "refining", "report">> \o Timestamp(t))

(***************************************************************************)
(* Initial states: a process is started on some directories.               *)
(***************************************************************************)
\* The k-th file name the input directory may hold.
InputFile(k) ==
    TxtName(<< IF k = 1 THEN "a" ELSE IF k = 2 THEN "b"
               ELSE IF k = 3 THEN "c" ELSE "d" >>)

\* The directory listings of Spec: the first k files, k = 0..MaxFiles, and
\* the case of a missing input directory.
Listing(k) == [i \in 1..k |-> InputFile(i)]

InputDirs ==
    { [exists |-> TRUE, files |-> Listing(k)] : k \in 0..MaxFiles }
    \cup { [exists |-> FALSE, files |-> <<>>] }

\* A coroutine frame of process_single_file before its first step.
NoModel == ModelConfig("", <<>>, "", 0)

\* delay is the time the coroutine has spent in asyncio.sleep (line 321).
NewTask ==
    [pc |-> "created", model_config |-> NoModel, start_time |-> 0,
     output_filename |-> NoFile, processing_time |-> 0, delay |-> 0]

NoReport ==
    [written |-> FALSE, total |-> 0, successful |-> <<>>, failed |-> <<>>,
     success_rate |-> 0, avg_time |-> 0, model_stats |-> <<>>]

NoSummary == [printed |-> FALSE, successful |-> 0, failed |-> 0, total |-> 0]

\* The sequential scraper's process before its main() has run:
\* gsap_batch_scraper_sequential.py, lines 57-61 and 81.  results holds the
\* three buckets, files the names written to Gsap_Docs, i the loop counter
\* of enumerate(urls, 1), log the history of the fetches and sleeps.
NewScraper ==
    [pc |-> "start", i |-> 1,
     results |-> [successful |-> <<>>, failed |-> <<>>, empty |-> <<>>],
     files |-> {}, log |-> <<>>,
     report |-> [written |-> FALSE, total |-> 0, successful |-> 0,
                 failed |-> 0, empty |-> 0],
     summary |-> [printed |-> FALSE, successful |-> 0, failed |-> 0, empty |-> 0]]

\* The model comparison's process before its main() has run
\* (gsap_model_comparison.py, lines 352-366): no semaphore and no coroutine
\* exists yet.  task holds the frames of the process_with_model coroutines,
\* running the coroutine that occupies the event loop's thread (0 when the
\* loop is free to start another), files the names written to output_dir.
NewComparison ==
    [pc |-> "start", sem_value |-> 0, task |-> <<>>, running |-> 0,
     results |-> <<>>, successful_results |-> <<>>, failed_results |-> <<>>,
     files |-> {},
     report |-> [written |-> FALSE, total |-> 0, successful |-> 0, failed |-> 0],
     summary |-> [printed |-> FALSE, successful |-> 0, failed |-> 0]]

\* The state of a process before main() has constructed the refiner.
Fresh ==
    /\ scraper = NewScraper
    /\ comparison = NewComparison
    /\ pc = "main"
    /\ models = <<>>
    /\ current_model_index = 0
    /\ results = <<>>
    /\ sem_value = 0
    /\ sem_waiters = <<>>
    /\ files_to_process = <<>>
    /\ task = <<>>
    /\ done = <<>>
    /\ report = NoReport
    /\ summary = NoSummary
    /\ rotation_log = <<>>

\* Spec: both client libraries are installed, any mode, an empty output
\* directory.
Init ==
    /\ HAS_GEMINI = TRUE
    /\ HAS_OPENAI = TRUE
    /\ mode \in Modes
    /\ input_dir \in InputDirs
    /\ output_dir = {}
    /\ now = 1
    /\ run = 1
    /\ prev_results = <<>>
    /\ Fresh

(***************************************************************************)
(* main(), lines 530 and 535-536: AdvancedDocumentRefiner(mode=mode).      *)
(* __init__ (lines 69-100) with setup_clients (lines 102-131), which       *)
(* raises RuntimeError when no backend is left; main() logs it and ends.   *)
(***************************************************************************)
Construct ==
    /\ pc = "main"
    /\ LET ms == AvailableModels(ModeFilter(mode), HAS_GEMINI, HAS_OPENAI)
       IN  IF ms = <<>>
           THEN /\ pc' = "error"
                /\ UNCHANGED << models, current_model_index, results,
                                sem_value, sem_waiters >>
           ELSE /\ models' = ms
                /\ results' = <<>>
                /\ current_model_index' = 0
                /\ sem_value' = max_parallel
                /\ sem_waiters' = <<>>
                /\ pc' = "run"
    /\ UNCHANGED << env_vars, output_dir, now, run, files_to_process, task,
                    done, report, summary, rotation_log >>

(***************************************************************************)
(* run_batch_processing, lines 438-459: setup_directories,                 *)
(* get_files_to_process, the early return on an empty list, and one        *)
(* process_single_file coroutine per selected file.                        *)
(***************************************************************************)
\* Mutant of SelectFiles: no early return on an empty list.
SelectFiles_NoEarlyReturn ==
    /\ pc = "run"
    /\ LET files == GetFilesToProcess(input_dir, output_dir)
       IN  /\ files_to_process' = files
           /\ pc' = IF files = <<>> THEN "report" ELSE "collect"
           /\ task' = [i \in 1..Len(files) |-> NewTask]
    /\ UNCHANGED << env_vars, output_dir, now, run, models,
                    current_model_index, results, sem_value, sem_waiters,
                    done, report, summary, rotation_log >>

SelectFiles ==
    /\ pc = "run"
    /\ LET files == GetFilesToProcess(input_dir, output_dir)
       IN  /\ files_to_process' = files
           /\ IF files = <<>>
              THEN /\ pc' = "done"
                   /\ task' = <<>>
              ELSE /\ pc' = "collect"
                   /\ task' = [i \in 1..Len(files) |-> NewTask]
    /\ UNCHANGED << env_vars, output_dir, now, run, models,
                    current_model_index, results, sem_value, sem_waiters,
                    done, report, summary, rotation_log >>

(***************************************************************************)
(* asyncio.Semaphore, as process_single_file uses it at line 290           *)
(* (async with self.semaphore).  acquire() takes a permit at once when the *)
(* semaphore is not locked, and otherwise queues the task; release() adds  *)
(* a permit and hands it to the first queued task that was not woken yet;  *)
(* a woken task leaves the queue when it runs again.                       *)
(***************************************************************************)
\* Mutant of Locked: only the queue is looked at, not the counter.
Locked_WaitersOnly == sem_waiters # <<>>

\* locked().
Locked == sem_value = 0 \/ sem_waiters # <<>>

\* The first queued task whose future is not done, 0 when there is none.
FirstWaiting(tk, ws) ==
    LET ks == { k \in 1..Len(ws) : tk[ws[k]].pc = "waiting" }
    IN  IF ks = {} THEN 0
        ELSE ws[CHOOSE k \in ks : \A l \in ks : k <= l]

\* Mutant of WakeUpNext: the wake-up is lost.
WakeUpNext_Lost(tk, ws, v) == [task |-> tk, value |-> v]

\* _wake_up_next() on frames tk, queue ws and counter v.
WakeUpNext(tk, ws, v) ==
    LET j == FirstWaiting(tk, ws)
    IN  IF j = 0 THEN [task |-> tk, value |-> v]
        ELSE [task |-> [tk EXCEPT ![j].pc = "woken"], value |-> v - 1]

\* Mutant of Release: the permit is not given back.
Release_NoPermit(tk, ws, v) == WakeUpNext(tk, ws, v)

\* release(): self._value += 1, then _wake_up_next().
Release(tk, ws, v) == WakeUpNext(tk, ws, v + 1)

(***************************************************************************)
(* process_single_file (lines 288-342), one action per step between two    *)
(* awaits.                                                                 *)
(***************************************************************************)
\* A reading of the clock: time does not run backwards.
ClockReadings == now..MaxClock

\* Mutant of EnterBody: the backend is taken without advancing the index.
EnterBody_KeepsIndex(i, tk, t) ==
    /\ now' = t
    /\ task' = [tk EXCEPT ![i].pc = "read",
                          ![i].model_config = ModelAt(models, current_model_index),
                          ![i].start_time = t]
    /\ rotation_log' = Append(rotation_log,
                              [item |-> i,
                               model |-> ModelAt(models, current_model_index)])
    /\ UNCHANGED current_model_index

\* Lines 291-294, the synchronous head of the guarded body: start_time and
\* get_next_model (lines 155-157).  tk is the frames as acquire() left them.
EnterBody(i, tk, t) ==
    /\ now' = t
    /\ task' = [tk EXCEPT ![i].pc = "read",
                          ![i].model_config = ModelAt(models, current_model_index),
                          ![i].start_time = t]
    /\ Rotate(i)

\* Line 290, first step of the coroutine: acquire() on a semaphore that is
\* not locked returns without suspending and the body starts; on a locked
\* one the task queues and suspends.
Acquire(i) ==
    /\ pc = "collect"
    /\ task[i].pc = "created"
    /\ IF ~Locked
       THEN /\ sem_value' = sem_value - 1
            /\ \E t \in ClockReadings : EnterBody(i, task, t)
            /\ UNCHANGED sem_waiters
       ELSE /\ sem_waiters' = Append(sem_waiters, i)
            /\ task' = [task EXCEPT ![i].pc = "waiting"]
            /\ UNCHANGED << sem_value, now, current_model_index, rotation_log >>
    /\ UNCHANGED << env_vars, output_dir, run, pc, models, results,
                    files_to_process, done, report, summary >>

\* Line 290, a woken task runs again: it leaves the queue, passes a spare
\* permit on (acquire(): if self._value > 0: self._wake_up_next()) and the
\* body starts.  Woken tasks run in the order they were woken.
Resume(i) ==
    /\ pc = "collect"
    /\ task[i].pc = "woken"
    /\ sem_waiters # <<>> /\ Head(sem_waiters) = i
    /\ LET ws == Tail(sem_waiters)
           w == IF sem_value > 0 THEN WakeUpNext(task, ws, sem_value)
                ELSE [task |-> task, value |-> sem_value]
       IN  /\ sem_waiters' = ws
           /\ sem_value' = w.value
           /\ \E t \in ClockReadings : EnterBody(i, w.task, t)
    /\ UNCHANGED << env_vars, output_dir, run, pc, models, results,
                    files_to_process, done, report, summary >>

\* Mutant of Return: the finished task goes to the front of the queue.
Return_ToFront(i, res, tk) ==
    LET r == Release([tk EXCEPT ![i].pc = "returned"], sem_waiters, sem_value)
    IN  /\ task' = r.task
        /\ sem_value' = r.value
        /\ done' = <<res>> \o done

\* The coroutine returns res: the async with block releases the permit and
\* as_completed queues the finished task.
Return(i, res, tk) ==
    LET r == Release([tk EXCEPT ![i].pc = "returned"], sem_waiters, sem_value)
    IN  /\ task' = r.task
        /\ sem_value' = r.value
        /\ done' = Append(done, res)

\* Mutant of Fail: the failure result is built without the error text.
Fail_NoErrorText(i, err, t) ==
    /\ now' = t
    /\ Return(i, ProcessingResult(files_to_process[i],
                                  task[i].model_config.short_name, FALSE,
                                  NoFile, NoError, t - task[i].start_time),
              task)

\* Mutant of Fail: the failure result is returned after the rate-limit
\* sleep.
Fail_AfterDelay(i, err, t) ==
    /\ now' = t
    /\ Return(i, ProcessingResult(files_to_process[i],
                                  task[i].model_config.short_name, FALSE,
                                  NoFile, err, t - task[i].start_time),
              [task EXCEPT ![i].delay = task[i].model_config.rate_limit_delay])

\* Lines 332-342: the except branch.  No sleep; the result carries the
\* error text and the short name of the backend that was assigned.
Fail(i, err, t) ==
    /\ now' = t
    /\ Return(i, ProcessingResult(files_to_process[i],
                                  task[i].model_config.short_name, FALSE,
                                  NoFile, err, t - task[i].start_time),
              task)

\* Lines 297-299: the read of the input file returns or raises.
ReadFile(i) ==
    /\ pc = "collect"
    /\ task[i].pc = "read"
    /\ \/ /\ task' = [task EXCEPT ![i].pc = "call"]
          /\ UNCHANGED << now, sem_value, done >>
       \/ \E t \in ClockReadings : Fail(i, "read error", t)
    /\ UNCHANGED << env_vars, output_dir, run, pc, models,
                    current_model_index, results, sem_waiters,
                    files_to_process, report, summary, rotation_log >>

\* Lines 260-261 and 285-286: the text of a provider error.
ProviderError(m) ==
    IF m.provider = "gemini" THEN "Gemini processing error"
                             ELSE "OpenRouter processing error"

\* Lines 301-311: the backend call returns or raises; on return the output
\* name is derived from the clock and the write is started.
CallBackend(i) ==
    /\ pc = "collect"
    /\ task[i].pc = "call"
    /\ \/ \E t \in ClockReadings :
             /\ now' = t
             /\ task' = [task EXCEPT
                            ![i].pc = "write",
                            ![i].output_filename =
                                OutputFilename(task[i].model_config.short_name,
                                               files_to_process[i], t)]
             /\ UNCHANGED << sem_value, done >>
       \/ \E t \in ClockReadings :
             Fail(i, ProviderError(task[i].model_config), t)
    /\ UNCHANGED << env_vars, output_dir, run, pc, models,
                    current_model_index, results, sem_waiters,
                    files_to_process, report, summary, rotation_log >>

\* Mutant of WriteFile: the permit is given back before the rate-limit
\* sleep.
WriteFile_ReleasesBeforeSleep(i) ==
    /\ pc = "collect"
    /\ task[i].pc = "write"
    /\ \/ \E t \in ClockReadings :
             LET r == Release([task EXCEPT
                                  ![i].pc = "sleep",
                                  ![i].processing_time = t - task[i].start_time],
                              sem_waiters, sem_value)
             IN  /\ now' = t
                 /\ output_dir' = output_dir \cup {task[i].output_filename}
                 /\ task' = r.task
                 /\ sem_value' = r.value
                 /\ UNCHANGED done
       \/ \E t \in ClockReadings, created \in BOOLEAN :
             /\ output_dir' = IF created
                               THEN output_dir \cup {task[i].output_filename}
                               ELSE output_dir
             /\ Fail(i, "write error", t)
    /\ UNCHANGED << env_vars, run, pc, models, current_model_index, results,
                    sem_waiters, files_to_process, report, summary,
                    rotation_log >>

\* Lines 313-321: the write returns, processing_time is taken and the
\* rate-limit sleep starts; or the write raises, with the file created
\* (open succeeded) or not.
WriteFile(i) ==
    /\ pc = "collect"
    /\ task[i].pc = "write"
    /\ \/ \E t \in ClockReadings :
             /\ now' = t
             /\ output_dir' = output_dir \cup {task[i].output_filename}
             /\ task' = [task EXCEPT
                            ![i].pc = "sleep",
                            ![i].processing_time = t - task[i].start_time]
             /\ UNCHANGED << sem_value, done >>
       \/ \E t \in ClockReadings, created \in BOOLEAN :
             /\ output_dir' = IF created
                               THEN output_dir \cup {task[i].output_filename}
                               ELSE output_dir
             /\ Fail(i, "write error", t)
    /\ UNCHANGED << env_vars, run, pc, models, current_model_index, results,
                    sem_waiters, files_to_process, report, summary,
                    rotation_log >>

\* Mutant of Sleep: the success result does not name its output file.
Sleep_NoOutputFile(i) ==
    /\ pc = "collect"
    /\ task[i].pc = "sleep"
    /\ Return(i, ProcessingResult(files_to_process[i],
                                  task[i].model_config.short_name, TRUE,
                                  NoFile, NoError, task[i].processing_time),
              [task EXCEPT ![i].delay = task[i].model_config.rate_limit_delay])
    /\ UNCHANGED << env_vars, output_dir, now, run, pc, models,
                    current_model_index, results, sem_waiters,
                    files_to_process, report, summary, rotation_log >>

\* Lines 321-330: the sleep of rate_limit_delay elapses and the success
\* result is returned.
Sleep(i) ==
    /\ pc = "collect"
    /\ task[i].pc = "sleep"
    /\ Return(i, ProcessingResult(files_to_process[i],
                                  task[i].model_config.short_name, TRUE,
                                  task[i].output_filename, NoError,
                                  task[i].processing_time),
              [task EXCEPT ![i].delay = task[i].model_config.rate_limit_delay])
    /\ UNCHANGED << env_vars, output_dir, now, run, pc, models,
                    current_model_index, results, sem_waiters,
                    files_to_process, report, summary, rotation_log >>

(***************************************************************************)
(* run_batch_processing, lines 464-474: the next finished task's result is *)
(* appended to self.results; after len(tasks) results the loop ends.       *)
(***************************************************************************)
\* Mutant of Collect: only the successful results are appended.
Collect_SuccessOnly ==
    /\ pc = "collect"
    /\ done # <<>>
    /\ results' = IF Head(done).success THEN Append(results, Head(done))
                                        ELSE results
    /\ done' = Tail(done)
    /\ pc' = IF done' = <<>> /\ \A i \in DOMAIN task : task[i].pc = "returned"
             THEN "report" ELSE "collect"
    /\ UNCHANGED << env_vars, output_dir, now, run, models,
                    current_model_index, sem_value, sem_waiters,
                    files_to_process, task, report, summary, rotation_log >>

\* Mutant of Collect: the loop ends after the first result.
Collect_EndsAfterFirst ==
    /\ pc = "collect"
    /\ done # <<>>
    /\ results' = Append(results, Head(done))
    /\ done' = Tail(done)
    /\ pc' = "report"
    /\ UNCHANGED << env_vars, output_dir, now, run, models,
                    current_model_index, sem_value, sem_waiters,
                    files_to_process, task, report, summary, rotation_log >>

\* Mutant of Collect: the result is put in front of the collection.
Collect_Prepends ==
    /\ pc = "collect"
    /\ done # <<>>
    /\ results' = <<Head(done)>> \o results
    /\ done' = Tail(done)
    /\ pc' = IF Len(results') = Len(files_to_process) THEN "report" ELSE "collect"
    /\ UNCHANGED << env_vars, output_dir, now, run, models,
                    current_model_index, sem_value, sem_waiters,
                    files_to_process, task, report, summary, rotation_log >>

Collect ==
    /\ pc = "collect"
    /\ done # <<>>
    /\ results' = Append(results, Head(done))
    /\ done' = Tail(done)
    /\ pc' = IF Len(results') = Len(files_to_process) THEN "report" ELSE "collect"
    /\ UNCHANGED << env_vars, output_dir, now, run, models,
                    current_model_index, sem_value, sem_waiters,
                    files_to_process, task, report, summary, rotation_log >>

(***************************************************************************)
(* generate_report (lines 344-407).                                        *)
(***************************************************************************)
\* Line 349.
Successful(rs) == SelectSeq(rs, LAMBDA r: r.success)

\* Mutant of FailedResults: the filter is missing.
FailedResults_Unfiltered(rs) == rs

\* Line 350.
FailedResults(rs) == SelectSeq(rs, LAMBDA r: ~r.success)

RECURSIVE SumTimes(_)
\* Line 352: sum(r.processing_time for r in self.results).
SumTimes(rs) ==
    IF rs = <<>> THEN 0 ELSE Head(rs).processing_time + SumTimes(Tail(rs))

\* Line 353: total_time / len(self.results) if self.results else 0
\* (in whole clock ticks).
AvgTime(rs) == IF rs # <<>> THEN SumTimes(rs) \div Len(rs) ELSE 0

\* Line 374: len(successful)/len(self.results)*100 divides without a guard;
\* it raises ZeroDivisionError on an empty collection.
SuccessRateRaises(rs) == Len(rs) = 0

\* Line 374, in whole percent, where the division is defined.
SuccessRate(rs) == (Len(Successful(rs)) * 100) \div Len(rs)

\* Mutant of ModelStats: a failure is counted in total only.
ModelStats_FailuresUncounted(rs) ==
    [m \in { rs[k].model_used : k \in 1..Len(rs) } |->
        [total      |-> Len(SelectSeq(rs, LAMBDA r: r.model_used = m)),
         successful |-> Len(SelectSeq(rs, LAMBDA r: r.model_used = m /\ r.success)),
         failed     |-> 0]]

\* Lines 356-366: per backend short name, the numbers of results.
ModelStats(rs) ==
    [m \in { rs[k].model_used : k \in 1..Len(rs) } |->
        [total      |-> Len(SelectSeq(rs, LAMBDA r: r.model_used = m)),
         successful |-> Len(SelectSeq(rs, LAMBDA r: r.model_used = m /\ r.success)),
         failed     |-> Len(SelectSeq(rs, LAMBDA r: r.model_used = m /\ ~r.success))]]

\* Lines 368-403: the text of the report, by its fields.
BuildReport(rs) ==
    [written |-> TRUE, total |-> Len(rs), successful |-> Successful(rs),
     failed |-> FailedResults(rs), success_rate |-> SuccessRate(rs),
     avg_time |-> AvgTime(rs), model_stats |-> ModelStats(rs)]

\* run_batch_processing line 478 with main() lines 535-536: the report is
\* built and written; ZeroDivisionError or a failed write of the report
\* leaves run_batch_processing and is logged by main().
GenerateReport ==
    /\ pc = "report"
    /\ \E t \in ClockReadings :
         /\ now' = t
         /\ IF SuccessRateRaises(results)
            THEN /\ pc' = "error"
                 /\ UNCHANGED << report, output_dir >>
            ELSE \/ /\ report' = BuildReport(results)
                    /\ output_dir' = output_dir \cup {ReportFilename(t)}
                    /\ pc' = "summary"
                 \/ /\ pc' = "error"
                    /\ \E created \in BOOLEAN :
                         output_dir' = IF created
                                       THEN output_dir \cup {ReportFilename(t)}
                                       ELSE output_dir
                    /\ UNCHANGED report
    /\ UNCHANGED << env_vars, run, models, current_model_index, results,
                    sem_value, sem_waiters, files_to_process, task, done,
                    summary, rotation_log >>

(***************************************************************************)
(* print_progress_summary (lines 409-423), called at line 479; the run     *)
(* then ends.                                                              *)
(***************************************************************************)
ProgressSummary(rs) ==
    [printed |-> TRUE,
     successful |-> Len(SelectSeq(rs, LAMBDA r: r.success)),
     failed |-> Len(SelectSeq(rs, LAMBDA r: ~r.success)),
     total |-> Len(rs)]

PrintProgressSummary ==
    /\ pc = "summary"
    /\ summary' = ProgressSummary(results)
    /\ pc' = "done"
    /\ UNCHANGED << env_vars, output_dir, now, run, models,
                    current_model_index, results, sem_value, sem_waiters,
                    files_to_process, task, done, report, rotation_log >>

(***************************************************************************)
(* The specification of one process run.                                   *)
(***************************************************************************)
Items == DOMAIN task

Next ==
    \/ Construct
    \/ SelectFiles
    \/ \E i \in Items : Acquire(i)
    \/ \E i \in Items : Resume(i)
    \/ \E i \in Items : ReadFile(i)
    \/ \E i \in Items : CallBackend(i)
    \/ \E i \in Items : WriteFile(i)
    \/ \E i \in Items : Sleep(i)
    \/ Collect
    \/ GenerateReport
    \/ PrintProgressSummary

Spec == Init /\ [][Next]_vars

(***************************************************************************)
(* SpecRerun: the program is started again on the same directories, the    *)
(* output of the earlier run retained.  Each start is a new process, so    *)
(* the refiner's state is built anew; the directories and the clock carry  *)
(* over.  The input directory may hold names made of several parts.        *)
(***************************************************************************)
\* An input name of four parts, 25_pro_a_20250101.txt.
LongName == TxtName(<<"25", "pro", "a", "20250101">>)

RerunDirs ==
    { [exists |-> TRUE, files |-> fs] :
        fs \in { <<InputFile(1)>>, <<InputFile(1), InputFile(2)>>,
                 <<InputFile(1), LongName>> } }

InitRerun ==
    /\ HAS_GEMINI = TRUE
    /\ HAS_OPENAI = TRUE
    /\ mode \in Modes
    /\ input_dir \in RerunDirs
    /\ output_dir = {}
    /\ now = 1
    /\ run = 1
    /\ prev_results = <<>>
    /\ Fresh

\* __main__ (lines 538-539) is run again after main() has ended.
Restart ==
    /\ pc \in {"done", "error"}
    /\ run < MaxRuns
    /\ run' = run + 1
    /\ prev_results' = results
    /\ pc' = "main"
    /\ models' = <<>>
    /\ current_model_index' = 0
    /\ results' = <<>>
    /\ sem_value' = 0
    /\ sem_waiters' = <<>>
    /\ files_to_process' = <<>>
    /\ task' = <<>>
    /\ done' = <<>>
    /\ report' = NoReport
    /\ summary' = NoSummary
    /\ rotation_log' = <<>>
    /\ UNCHANGED << HAS_GEMINI, HAS_OPENAI, mode, input_dir, output_dir, now,
                    scraper, comparison >>

NextRerun ==
    \/ Next
    \/ Restart

SpecRerun == InitRerun /\ [][NextRerun]_vars

(***************************************************************************)
(* SpecRotation: get_next_model (lines 153-157) called MaxCalls times on a *)
(* constructed refiner, by any caller.                                     *)
(***************************************************************************)
InitRotation ==
    /\ HAS_GEMINI = TRUE
    /\ HAS_OPENAI = TRUE
    /\ mode \in Modes
    /\ input_dir = [exists |-> TRUE, files |-> Listing(MaxFiles)]
    /\ output_dir = {}
    /\ now = 1
    /\ run = 1
    /\ prev_results = <<>>
    /\ Fresh

GetNextModel(caller) ==
    /\ pc = "run"
    /\ Len(rotation_log) < MaxCalls
    /\ Rotate(caller)
    /\ UNCHANGED << env_vars, output_dir, now, run, pc, models, results,
                    sem_value, sem_waiters, files_to_process, task, done,
                    report, summary >>

NextRotation ==
    \/ Construct
    \/ \E caller \in 1..MaxFiles : GetNextModel(caller)

SpecRotation == InitRotation /\ [][NextRotation]_vars

(***************************************************************************)
(* SpecReport: generate_report and print_progress_summary applied to a     *)
(* result collection of at most MaxResults results of distinct files, the  *)
(* empty one of a newly constructed refiner included.                      *)
(***************************************************************************)
\* The results process_single_file can return for the k-th file.
ResultsOf(k) ==
    { ProcessingResult(InputFile(k), m.short_name, TRUE,
                       OutputFilename(m.short_name, InputFile(k), 1), NoError, 0)
        : m \in { all_models[j] : j \in 1..Len(all_models) } }
    \cup
    UNION { { ProcessingResult(InputFile(k), m.short_name, FALSE, NoFile, e, 0)
                : e \in { "read error", "write error", ProviderError(m) } }
            : m \in { all_models[j] : j \in 1..Len(all_models) } }

RECURSIVE ResultSeqsOfLen(_)
\* The collections of n results, the k-th being one of the k-th file.
ResultSeqsOfLen(n) ==
    IF n = 0 THEN { <<>> }
    ELSE { Append(rs, r) : rs \in ResultSeqsOfLen(n - 1), r \in ResultsOf(n) }

ResultSeqs == UNION { ResultSeqsOfLen(n) : n \in 0..MaxResults }

InitReport ==
    /\ HAS_GEMINI = TRUE
    /\ HAS_OPENAI = TRUE
    /\ mode = "all"
    /\ input_dir = [exists |-> TRUE, files |-> <<>>]
    /\ output_dir = {}
    /\ now = 1
    /\ run = 1
    /\ prev_results = <<>>
    /\ pc = "report"
    /\ models = all_models
    /\ current_model_index = 0
    /\ results \in ResultSeqs
    /\ sem_value = max_parallel
    /\ sem_waiters = <<>>
    /\ files_to_process = <<>>
    /\ task = <<>>
    /\ done = <<>>
    /\ report = NoReport
    /\ summary = NoSummary
    /\ rotation_log = <<>>
    /\ scraper = NewScraper
    /\ comparison = NewComparison

NextReport ==
    \/ GenerateReport
    \/ PrintProgressSummary

SpecReport == InitReport /\ [][NextReport]_vars

(***************************************************************************)
(* SpecSetup: a process run where a client library is not installed (the   *)
(* module flags of lines 20-32; Spec covers the case of both installed),   *)
(* in any mode.                                                            *)
(***************************************************************************)
InitSetup ==
    /\ HAS_GEMINI \in BOOLEAN
    /\ HAS_OPENAI \in BOOLEAN
    /\ ~(HAS_GEMINI /\ HAS_OPENAI)
    /\ mode \in Modes
    /\ input_dir \in InputDirs
    /\ output_dir = {}
    /\ now = 1
    /\ run = 1
    /\ prev_results = <<>>
    /\ Fresh

SpecSetup == InitSetup /\ [][Next]_vars

(***************************************************************************)
(* SpecInterrupt: a run that the user may interrupt while main() awaits    *)
(* the next finished task (lines 464-465).  asyncio.run cancels the main   *)
(* task at its await: CancelledError is not an Exception, so it leaves     *)
(* run_batch_processing before line 478, and the tasks still in flight are *)
(* cancelled at their awaits without a result.  A write in flight may have *)
(* created its file.                                                       *)
(***************************************************************************)
\* The tasks the interrupt ends.
Abandon(tk) ==
    [i \in DOMAIN tk |->
        IF tk[i].pc = "returned" THEN tk[i] ELSE [tk[i] EXCEPT !.pc = "cancelled"]]

\* Mutant of Interrupt: the handler reports the results collected so far.
Interrupt_ReportsPartial ==
    /\ pc = "collect"
    /\ pc' = "interrupted"
    /\ task' = Abandon(task)
    /\ report' = IF results = <<>> THEN report ELSE BuildReport(results)
    /\ output_dir' = IF results = <<>> THEN output_dir
                      ELSE output_dir \cup {ReportFilename(now)}
    /\ UNCHANGED << env_vars, now, run, models, current_model_index, results,
                    sem_value, sem_waiters, files_to_process, done, summary,
                    rotation_log >>

Interrupt ==
    /\ pc = "collect"
    /\ pc' = "interrupted"
    /\ task' = Abandon(task)
    /\ \E fs \in SUBSET { task[i].output_filename :
                             i \in { j \in Items : task[j].pc = "write" } } :
          output_dir' = output_dir \cup fs
    /\ UNCHANGED << env_vars, now, run, models, current_model_index, results,
                    sem_value, sem_waiters, files_to_process, done, report,
                    summary, rotation_log >>

NextInterrupt ==
    \/ Next
    \/ Interrupt

SpecInterrupt == Init /\ [][NextInterrupt]_vars

(***************************************************************************)
(* The sequential scraper, gsap_batch_scraper_sequential.py.               *)
(***************************************************************************)
\* A URL of the list, by what follows 'https://gsap.com/docs/v3/GSAP/':
\* the parts that '.' separates, and whether '()' ends the path.
Url(path, call) == [path |-> path, call |-> call]

\* Lines 15-27, the first URLs of the list.
gsap_urls ==
    << Url(<<>>, FALSE), Url(<<"gsap", "effects">>, FALSE),
       Url(<<"gsap", "globalTimeline">>, FALSE), Url(<<"gsap", "ticker">>, FALSE) >>

\* The list of a run: the first MaxUrls URLs.
urls == SubSeq(gsap_urls, 1, MaxUrls)

\* Lines 29-45: 'main' for the base URL; otherwise '()' is deleted and
\* 'gsap.' becomes 'gsap_', so that the topic is the parts joined by '_'.
extract_topic_name(url) == IF url.path = <<>> THEN <<"main">> ELSE url.path

\* Line 83: gsap_<topic>.txt in the output directory.
ScrapedFilename(url) == TxtName(<<"gsap">> \o extract_topic_name(url))

\* result.markdown: None, or a text of `around` whitespace characters at
\* its two ends, `text` non-blank characters and `inside` whitespace
\* characters between them.
Markdown(around, text, inside) ==
    [none |-> FALSE, around |-> around, text |-> text, inside |-> inside]

NoMarkdown == [none |-> TRUE, around |-> 0, text |-> 0, inside |-> 0]

\* len(result.markdown).
MarkdownLen(md) == md.around + md.text + md.inside

\* len(result.markdown.strip()): strip() deletes the whitespace of the two
\* ends and keeps the whitespace between non-blank characters.
StrippedLen(md) == IF md.text = 0 THEN 0 ELSE md.text + md.inside

\* Line 112, the length below which content counts as empty.
MinContentLength == 100

\* Mutant of IsEmptyContent: only missing markdown counts as empty.
IsEmptyContent_NoThreshold(md) == md.none \/ MarkdownLen(md) = 0

\* Line 112: not result.markdown or len(result.markdown.strip()) < 100.
IsEmptyContent(md) ==
    \/ md.none \/ MarkdownLen(md) = 0
    \/ StrippedLen(md) < MinContentLength

\* What crawler.arun may return for a page.
Markdowns ==
    {NoMarkdown} \cup
    ( { Markdown(a, t, n) : a \in {0, 2}, t \in {0, 60, 99, 100}, n \in {0, 50} }
      \ { Markdown(a, 0, 50) : a \in {0, 2} } )

\* The loop goes to its next iteration, or ends after the last URL.
NextUrl(sc) ==
    [sc EXCEPT !.i = sc.i + 1,
               !.pc = IF sc.i < Len(urls) THEN "fetch" ELSE "report"]

\* Lines 147-150: after an iteration that ran to its end the scraper
\* sleeps, except after the last URL.
EndOfIteration(sc) ==
    IF sc.i < Len(urls) THEN [sc EXCEPT !.pc = "sleep"] ELSE NextUrl(sc)

\* Lines 63-79 and 81: the crawler is started (or raises, which ends
\* main() at lines 236-237) and the loop begins.
StartCrawler ==
    /\ scraper.pc = "start"
    /\ \/ scraper' = [scraper EXCEPT !.pc = IF urls = <<>> THEN "report" ELSE "fetch"]
       \/ scraper' = [scraper EXCEPT !.pc = "error"]
    /\ UNCHANGED << HAS_GEMINI, HAS_OPENAI, mode, input_dir, prev_results,
                    output_dir, now, run, pc, models, current_model_index,
                    results, sem_value, sem_waiters, files_to_process, task,
                    done, report, summary, rotation_log, comparison >>

\* Lines 82-145, one iteration for urls[i]: crawler.arun returns or raises;
\* empty content goes to the empty bucket and `continue`s; other content is
\* written to its file and goes to successful; an exception of arun or of
\* the write goes to failed (the file may have been created).
Fetch ==
    /\ scraper.pc = "fetch"
    /\ LET url == urls[scraper.i]
           topic == extract_topic_name(url)
       IN  \/ \E md \in Markdowns :
                LET sc == [scraper EXCEPT
                             !.log = Append(@, [event |-> "fetch", url |-> url,
                                                raised |-> FALSE, markdown |-> md])]
                IN  IF IsEmptyContent(md)
                    THEN scraper' = NextUrl([sc EXCEPT
                             !.results.empty = Append(@, [url |-> url, topic |-> topic])])
                    ELSE \/ scraper' = EndOfIteration([sc EXCEPT
                                !.files = @ \cup {ScrapedFilename(url)},
                                !.results.successful =
                                    Append(@, [url |-> url, topic |-> topic,
                                               filename |-> ScrapedFilename(url),
                                               size |-> MarkdownLen(md)])])
                         \/ \E created \in BOOLEAN :
                              scraper' = EndOfIteration([sc EXCEPT
                                !.files = IF created THEN @ \cup {ScrapedFilename(url)}
                                                     ELSE @,
                                !.results.failed =
                                    Append(@, [url |-> url, topic |-> topic,
                                               error |-> "write error"])])
           \/ scraper' = EndOfIteration([scraper EXCEPT
                    !.log = Append(@, [event |-> "fetch", url |-> url,
                                       raised |-> TRUE, markdown |-> NoMarkdown]),
                    !.results.failed = Append(@, [url |-> url, topic |-> topic,
                                                  error |-> "fetch error"])])
    /\ UNCHANGED << HAS_GEMINI, HAS_OPENAI, mode, input_dir, prev_results,
                    output_dir, now, run, pc, models, current_model_index,
                    results, sem_value, sem_waiters, files_to_process, task,
                    done, report, summary, rotation_log, comparison >>

\* Line 150: the sleep of 2 seconds ends and the next iteration begins.
ScraperSleep ==
    /\ scraper.pc = "sleep"
    /\ scraper' = NextUrl([scraper EXCEPT !.log = Append(@, [event |-> "sleep"])])
    /\ UNCHANGED << HAS_GEMINI, HAS_OPENAI, mode, input_dir, prev_results,
                    output_dir, now, run, pc, models, current_model_index,
                    results, sem_value, sem_waiters, files_to_process, task,
                    done, report, summary, rotation_log, comparison >>

\* Lines 153 and 157-201: the summary report is written, or its write
\* raises and ends main().
GenerateSummaryReport ==
    /\ scraper.pc = "report"
    /\ \/ scraper' = [scraper EXCEPT
                         !.pc = "summary",
                         !.report = [written |-> TRUE, total |-> Len(urls),
                                     successful |-> Len(scraper.results.successful),
                                     failed |-> Len(scraper.results.failed),
                                     empty |-> Len(scraper.results.empty)]]
       \/ scraper' = [scraper EXCEPT !.pc = "error"]
    /\ UNCHANGED << HAS_GEMINI, HAS_OPENAI, mode, input_dir, prev_results,
                    output_dir, now, run, pc, models, current_model_index,
                    results, sem_value, sem_waiters, files_to_process, task,
                    done, report, summary, rotation_log, comparison >>

\* Lines 203-223, called at line 229.
PrintFinalSummary ==
    /\ scraper.pc = "summary"
    /\ scraper' = [scraper EXCEPT
                      !.pc = "done",
                      !.summary = [printed |-> TRUE,
                                   successful |-> Len(scraper.results.successful),
                                   failed |-> Len(scraper.results.failed),
                                   empty |-> Len(scraper.results.empty)]]
    /\ UNCHANGED << HAS_GEMINI, HAS_OPENAI, mode, input_dir, prev_results,
                    output_dir, now, run, pc, models, current_model_index,
                    results, sem_value, sem_waiters, files_to_process, task,
                    done, report, summary, rotation_log, comparison >>

InitScraper ==
    /\ HAS_GEMINI = TRUE
    /\ HAS_OPENAI = TRUE
    /\ mode = "all"
    /\ input_dir = [exists |-> FALSE, files |-> <<>>]
    /\ output_dir = {}
    /\ now = 1
    /\ run = 1
    /\ prev_results = <<>>
    /\ Fresh

NextScraper ==
    \/ StartCrawler
    \/ Fetch
    \/ ScraperSleep
    \/ GenerateSummaryReport
    \/ PrintFinalSummary

SpecScraper == InitScraper /\ [][NextScraper]_vars

(***************************************************************************)
(* SpecSelect: a process run on an input directory that also holds files   *)
(* get_files_to_process must pass over: names that do not end in .txt and  *)
(* names that start with refined_.                                         *)
(***************************************************************************)
\* notes.md, refined_a.txt, refined.txt (no '_' after the marker), and
\* a.txt.bak.
OtherFiles ==
    << FileName(<<"notes">>, ".md"), TxtName(<<"refined", "a">>),
       TxtName(<<"refined">>), FileName(<<"a">>, ".txt.bak") >>

SelectDirs ==
    { [exists |-> TRUE, files |-> fs] :
        fs \in { <<OtherFiles[1], OtherFiles[2]>>,
                 <<OtherFiles[1], InputFile(1), OtherFiles[2]>>,
                 <<OtherFiles[2], OtherFiles[3], OtherFiles[4]>>,
                 <<InputFile(1), OtherFiles[4], OtherFiles[2], InputFile(2)>> } }
    \cup { [exists |-> FALSE, files |-> <<>>] }

InitSelect ==
    /\ HAS_GEMINI = TRUE
    /\ HAS_OPENAI = TRUE
    /\ mode \in Modes
    /\ input_dir \in SelectDirs
    /\ output_dir = {}
    /\ now = 1
    /\ run = 1
    /\ prev_results = <<>>
    /\ Fresh

SpecSelect == InitSelect /\ [][Next]_vars

(***************************************************************************)
(* SpecLive: a process run in which every step that can be taken is taken  *)
(* in the end.  The asyncio event loop runs every ready task, and every    *)
(* read, backend call, write and sleep is taken to return or to raise.     *)
(***************************************************************************)
InitLive ==
    /\ HAS_GEMINI = TRUE
    /\ HAS_OPENAI = TRUE
    /\ mode = "gemini"
    /\ input_dir \in InputDirs
    /\ output_dir = {}
    /\ now = 1
    /\ run = 1
    /\ prev_results = <<>>
    /\ Fresh

SpecLive == InitLive /\ [][Next]_vars /\ WF_vars(Next)

(***************************************************************************)
(* SpecBackends: the refiner is constructed in any mode with any           *)
(* combination of installed client libraries, and its backend list is then *)
(* used by calls of get_next_model.                                        *)
(***************************************************************************)
InitBackends ==
    /\ HAS_GEMINI \in BOOLEAN
    /\ HAS_OPENAI \in BOOLEAN
    /\ mode \in Modes
    /\ input_dir = [exists |-> TRUE, files |-> Listing(MaxFiles)]
    /\ output_dir = {}
    /\ now = 1
    /\ run = 1
    /\ prev_results = <<>>
    /\ Fresh

SpecBackends == InitBackends /\ [][NextRotation]_vars

(***************************************************************************)
(* The model comparison, gsap_model_comparison.py.                         *)
(***************************************************************************)
\* Lines 14-21: the keys of the models table, in the order of the dict.
model_table ==
    << "deepseek", "qwen3", "llama", "deepseek_r1_qwen3", "deepseek_r1",
       "qwen_coder" >>

\* The table of a run: its first MaxModels entries.
ComparisonModels == SubSeq(model_table, 1, MaxModels)

\* Line 203: asyncio.Semaphore(3).
SemaphoreSize == 3

\* Line 150: refined_<model_short_name>_<current_time>.txt in output_dir; the
\* short names of the table are distinct, the time is left out of the name.
RefinedFilename(model) == TxtName(<<"refined", model>>)

\* len(completion.choices[0].message.content), line 156.
ResponseLengths == {10, 20}

\* What a process_with_model task holds before it has finished.
NoOutcome ==
    [status |-> "pending", model |-> "", filename |-> NoFile,
     response_length |-> 0, error |-> ""]

\* Lines 161-170, the dict of a success (the fields the script reads later).
SuccessResult(model, length) ==
    [status |-> "success", model |-> model, filename |-> RefinedFilename(model),
     response_length |-> length, error |-> ""]

\* Mutant of FailedResult: the exception leaves the coroutine, so that
\* gather hands back the exception in place of a dict.
FailedResult_Raises(model, error) ==
    [status |-> "exception", model |-> model, filename |-> NoFile,
     response_length |-> 0, error |-> error]

\* Lines 172-179, the dict of a failure: except Exception catches what the
\* API call or the file write raised and returns it as str(e).
FailedResult(model, error) ==
    [status |-> "failed", model |-> model, filename |-> NoFile,
     response_length |-> 0, error |-> error]

\* The frame of a process_with_model coroutine that gather has wrapped in a
\* task and that has not run yet.  raised is history: what raised in it.
NewModelTask == [pc |-> "created", raised |-> "", result |-> NoOutcome]

\* Lines 161-179 and the exit of `async with` (line 113): the coroutine
\* returns its dict, the permit goes back and the event loop is free.
ReturnFromModel(c, k, result) ==
    [c EXCEPT !.task[k].pc = "returned",
              !.task[k].result = result,
              !.sem_value = @ + 1,
              !.running = 0]

\* Lines 225-233: the results whose status is "success", in gather's order.
SuccessfulOf(rs) == SelectSeq(rs, LAMBDA r : r.status = "success")

\* Lines 225-233: the results whose status is "failed", in gather's order;
\* an exception among the results is skipped (lines 226-228).
FailedOf(rs) == SelectSeq(rs, LAMBDA r : r.status = "failed")

\* Line 250: list.sort(key=response_length, reverse=True), a stable sort.
RECURSIVE SortByLength(_)
SortByLength(rs) ==
    IF rs = <<>> THEN <<>>
    ELSE LET top == CHOOSE n \in { rs[i].response_length : i \in 1..Len(rs) } :
                        \A i \in 1..Len(rs) : rs[i].response_length <= n
         IN  SelectSeq(rs, LAMBDA r : r.response_length = top) \o
             SortByLength(SelectSeq(rs, LAMBDA r : r.response_length # top))

\* Lines 352-366 and 184-217: main() returns when the input file is
\* missing (lines 360-363, and 198-200); otherwise the content is read, the
\* semaphore is created and gather wraps one coroutine per model in a task.
StartComparison ==
    /\ comparison.pc = "start"
    /\ \/ comparison' = [comparison EXCEPT !.pc = "nofile"]
       \/ comparison' = [comparison EXCEPT
                            !.pc = "gather",
                            !.sem_value = SemaphoreSize,
                            !.task = [k \in 1..Len(ComparisonModels) |-> NewModelTask]]
    /\ UNCHANGED << HAS_GEMINI, HAS_OPENAI, mode, input_dir, prev_results,
                    scraper, output_dir, now, run, pc, models,
                    current_model_index, results, sem_value, sem_waiters,
                    files_to_process, task, done, report, summary,
                    rotation_log >>

\* Lines 113-131: the event loop starts the first task that has not run;
\* the task takes a permit and goes on, without any await, to the call
\* client.chat.completions.create of the synchronous OpenAI client, which
\* occupies the event loop's thread until it returns.
EnterModel(k) ==
    /\ comparison.pc = "gather"
    /\ comparison.running = 0
    /\ comparison.task[k].pc = "created"
    /\ \A j \in 1..(k - 1) : comparison.task[j].pc # "created"
    /\ comparison.sem_value > 0
    /\ comparison' = [comparison EXCEPT !.sem_value = @ - 1,
                                        !.running = k,
                                        !.task[k].pc = "call"]
    /\ UNCHANGED << HAS_GEMINI, HAS_OPENAI, mode, input_dir, prev_results,
                    scraper, output_dir, now, run, pc, models,
                    current_model_index, results, sem_value, sem_waiters,
                    files_to_process, task, done, report, summary,
                    rotation_log >>

\* Lines 131-146 and 172-179: the API call returns a completion, or raises
\* and the coroutine returns the dict of a failure.
CallReturns(k) ==
    /\ comparison.task[k].pc = "call"
    /\ \/ comparison' = [comparison EXCEPT !.task[k].pc = "write"]
       \/ comparison' = ReturnFromModel(
                            [comparison EXCEPT !.task[k].raised = "api error"], k,
                            FailedResult(ComparisonModels[k], "api error"))
    /\ UNCHANGED << HAS_GEMINI, HAS_OPENAI, mode, input_dir, prev_results,
                    scraper, output_dir, now, run, pc, models,
                    current_model_index, results, sem_value, sem_waiters,
                    files_to_process, task, done, report, summary,
                    rotation_log >>

\* Lines 148-179: the output file is written and the coroutine returns the
\* dict of a success, or the write raises (the file may have been created)
\* and the coroutine returns the dict of a failure.
WriteOutput(k) ==
    /\ comparison.task[k].pc = "write"
    /\ LET model == ComparisonModels[k]
       IN  \/ \E length \in ResponseLengths :
                comparison' = ReturnFromModel(
                    [comparison EXCEPT !.files = @ \cup {RefinedFilename(model)}], k,
                    SuccessResult(model, length))
           \/ \E created \in BOOLEAN :
                comparison' = ReturnFromModel(
                    [comparison EXCEPT
                        !.files = IF created THEN @ \cup {RefinedFilename(model)}
                                             ELSE @,
                        !.task[k].raised = "write error"], k,
                    FailedResult(model, "write error"))
    /\ UNCHANGED << HAS_GEMINI, HAS_OPENAI, mode, input_dir, prev_results,
                    scraper, output_dir, now, run, pc, models,
                    current_model_index, results, sem_value, sem_waiters,
                    files_to_process, task, done, report, summary,
                    rotation_log >>

\* Lines 217-233: gather returns the results of all tasks, in the order of
\* the table, and the loop sorts them into the two lists.
ProcessResults ==
    /\ comparison.pc = "gather"
    /\ \A k \in 1..Len(comparison.task) : comparison.task[k].pc = "returned"
    /\ LET rs == [k \in 1..Len(comparison.task) |-> comparison.task[k].result]
       IN  comparison' = [comparison EXCEPT
                             !.pc = "report",
                             !.results = rs,
                             !.successful_results = SuccessfulOf(rs),
                             !.failed_results = FailedOf(rs)]
    /\ UNCHANGED << HAS_GEMINI, HAS_OPENAI, mode, input_dir, prev_results,
                    scraper, output_dir, now, run, pc, models,
                    current_model_index, results, sem_value, sem_waiters,
                    files_to_process, task, done, report, summary,
                    rotation_log >>

\* Lines 236 and 240-324: the successful results are sorted in place and
\* the report is written, or its write raises and ends main() (line 374).
GenerateComparisonReport ==
    /\ comparison.pc = "report"
    /\ LET sorted == SortByLength(comparison.successful_results)
       IN  \/ comparison' = [comparison EXCEPT
                                !.pc = "summary",
                                !.successful_results = sorted,
                                !.report = [written |-> TRUE,
                                            total |-> Len(ComparisonModels),
                                            successful |-> Len(sorted),
                                            failed |-> Len(comparison.failed_results)]]
           \/ comparison' = [comparison EXCEPT !.pc = "error",
                                               !.successful_results = sorted]
    /\ UNCHANGED << HAS_GEMINI, HAS_OPENAI, mode, input_dir, prev_results,
                    scraper, output_dir, now, run, pc, models,
                    current_model_index, results, sem_value, sem_waiters,
                    files_to_process, task, done, report, summary,
                    rotation_log >>

\* Lines 326-350, called at line 367.
PrintComparisonSummary ==
    /\ comparison.pc = "summary"
    /\ comparison' = [comparison EXCEPT
                         !.pc = "done",
                         !.summary = [printed |-> TRUE,
                                      successful |-> Len(comparison.successful_results),
                                      failed |-> Len(comparison.failed_results)]]
    /\ UNCHANGED << HAS_GEMINI, HAS_OPENAI, mode, input_dir, prev_results,
                    scraper, output_dir, now, run, pc, models,
                    current_model_index, results, sem_value, sem_waiters,
                    files_to_process, task, done, report, summary,
                    rotation_log >>

InitComparison ==
    /\ HAS_GEMINI = TRUE
    /\ HAS_OPENAI = TRUE
    /\ mode = "all"
    /\ input_dir = [exists |-> FALSE, files |-> <<>>]
    /\ output_dir = {}
    /\ now = 1
    /\ run = 1
    /\ prev_results = <<>>
    /\ Fresh

NextComparison ==
    \/ StartComparison
    \/ \E k \in 1..Len(comparison.task) : EnterModel(k)
    \/ \E k \in 1..Len(comparison.task) : CallReturns(k)
    \/ \E k \in 1..Len(comparison.task) : WriteOutput(k)
    \/ ProcessResults
    \/ GenerateComparisonReport
    \/ PrintComparisonSummary

SpecComparison == InitComparison /\ [][NextComparison]_vars

(***************************************************************************)
(* Properties.                                                             *)
(***************************************************************************)
\* The item is inside the body the semaphore guards: from the selection of
\* the backend up to the return, the rate-limit sleep included.
InBody(i) == task[i].pc \in {"read", "call", "write", "sleep"}

\* main() has left the collection loop of a run that had work items.
RunEnded == pc \in {"report", "summary", "done", "error"} /\ files_to_process # <<>>

\* The number of entries of rs for the file name f.
ResultsFor(rs, f) == Cardinality({ k \in 1..Len(rs) : rs[k].filename = f })

\* C1: when a run with a non-empty work list has left its collection loop,
\* self.results holds exactly one ProcessingResult per selected work item:
\* as many results as items, and for every item one result, not zero and
\* not two.
C1_OneResultPerItem ==
    RunEnded =>
        /\ Len(results) = Len(files_to_process)
        /\ \A i \in 1..Len(files_to_process) :
              ResultsFor(results, files_to_process[i]) = 1

\* C1, witness: a run of several items has ended with a success and a
\* failure among its results.
C1_Witness ==
    /\ pc = "done"
    /\ Len(files_to_process) >= 2
    /\ \E k \in 1..Len(results) : results[k].success
    /\ \E k \in 1..Len(results) : ~results[k].success

\* C2: in every reachable state at most max_parallel items are inside the
\* guarded body of process_single_file.
C2_AtMostMaxParallel ==
    Cardinality({ i \in Items : InBody(i) }) <= max_parallel

\* C2, witness: the pool is exhausted, max_parallel items are inside the
\* body and a further item is queued for a permit.
C2_Witness ==
    /\ Cardinality({ i \in Items : InBody(i) }) = max_parallel
    /\ \E i \in Items : task[i].pc = "waiting"

\* C3: counting from 0, the N-th call of get_next_model returns
\* models[N mod len(models)], whoever calls; the index after N calls is
\* N mod len(models), so that no position is skipped or handed out twice
\* in a row.
C3_RotationByCallOrder ==
    /\ \A n \in 1..Len(rotation_log) :
          rotation_log[n].model = models[((n - 1) % Len(models)) + 1]
    /\ models # <<>> =>
          current_model_index = Len(rotation_log) % Len(models)

\* C3, witness: with several backends the rotation has wrapped, and the
\* calls came from different callers.
C3_Witness ==
    /\ Len(models) >= 2
    /\ Len(rotation_log) > Len(models)
    /\ rotation_log[Len(models) + 1].model = models[1]
    /\ \E n \in 1..Len(rotation_log) : rotation_log[n].item # rotation_log[1].item

\* C4 as stated: the item at position i (from 0) of files_to_process is
\* processed by models[i mod len(models)].
C4_BackendBySubmissionPosition ==
    \A i \in Items :
        task[i].model_config # NoModel =>
            task[i].model_config = models[((i - 1) % Len(models)) + 1]

\* C4, amended: each work item is processed by exactly one backend, and
\* that backend is determined by the item's position in admission order:
\* the item that is the k-th (from 0) to enter the guarded body makes the
\* k-th call of get_next_model, its only one, and is processed by
\* models[k mod len(models)], the backend its result names.
C4_BackendByAdmissionPosition ==
    \A i \in Items :
        LET ns == { n \in 1..Len(rotation_log) : rotation_log[n].item = i }
            rs == results \o done
        IN  /\ Cardinality(ns) <= 1
            /\ (task[i].model_config # NoModel) <=> (ns # {})
            /\ \A n \in ns :
                  task[i].model_config = models[((n - 1) % Len(models)) + 1]
            /\ \A k \in 1..Len(rs) :
                  rs[k].filename = files_to_process[i] =>
                      rs[k].model_used = task[i].model_config.short_name

\* C4, witness: with several backends the second item of the work list
\* entered the body first, and both items have their result.
C4_Witness ==
    /\ Len(models) >= 2
    /\ Len(rotation_log) >= 2
    /\ rotation_log[1].item = 2
    /\ Len(results) = Len(files_to_process)

\* get_files_to_process has run in this process run.
Selected == pc \in {"collect", "report", "summary", "done", "error"} /\ models # <<>>

\* C5: get_files_to_process does not select a file for which the output
\* directory holds the output that process_single_file wrote for it in
\* the run before; and a run that follows a run in which every item
\* succeeded selects no work item.
C5_ProcessedNotSelected ==
    (run > 1 /\ Selected) =>
        /\ \A k \in 1..Len(prev_results) :
              ( /\ prev_results[k].success
                /\ prev_results[k].output_file \in output_dir ) =>
                  \A j \in 1..Len(files_to_process) :
                      files_to_process[j] # prev_results[k].filename
        /\ ( /\ prev_results # <<>>
             /\ \A k \in 1..Len(prev_results) : prev_results[k].success ) =>
              files_to_process = <<>>

\* C6: an item whose read or backend call raised in a run is selected
\* again by get_files_to_process in the next run over the same input
\* directory (stated for the runs in which no write failed, so that every
\* file of the output directory is the output of a success).
C6_FailedSelectedAgain ==
    ( /\ run > 1
      /\ Selected
      /\ \A k \in 1..Len(prev_results) : prev_results[k].error # "write error" ) =>
        \A k \in 1..Len(prev_results) :
            ~prev_results[k].success =>
                \E j \in 1..Len(files_to_process) :
                    files_to_process[j] = prev_results[k].filename

\* The error texts process_single_file records.
ErrorTexts ==
    {"read error", "write error", "Gemini processing error",
     "OpenRouter processing error"}

\* C7: a failure of the read, the backend call or the write of one item
\* is absorbed at that item: its result has success = false, the error
\* text and no output file; the loop is not aborted, so that every item
\* still gets its own result; and the report of the run lists exactly the
\* failed results as failures.
C7_FailureAbsorbed ==
    LET rs == results \o done
    IN  /\ \A k \in 1..Len(rs) :
              ~rs[k].success =>
                  rs[k].error \in ErrorTexts /\ rs[k].output_file = NoFile
        /\ \A i \in Items :
              task[i].pc = "returned" => ResultsFor(rs, files_to_process[i]) = 1
        /\ RunEnded =>
              \A i \in Items : ResultsFor(results, files_to_process[i]) = 1
        /\ (pc \in {"summary", "done"} /\ files_to_process # <<>>) =>
              /\ report.written
              /\ report.failed = SelectSeq(results, LAMBDA r: ~r.success)

\* C7, witness: a run has ended in which one item failed and another one
\* succeeded, and the report lists the failure.
C7_Witness ==
    /\ pc = "done"
    /\ report.written
    /\ Len(report.failed) = 1
    /\ Len(report.successful) >= 1
    /\ report.failed[1].error \in ErrorTexts

\* C8: generate_report on an empty result collection completes without a
\* division fault and reports total 0, success rate 0 and average time 0.
C8_EmptyReportTolerated ==
    (results = <<>> /\ pc # "report") =>
        /\ pc # "error"
        /\ report.written
        /\ report.total = 0
        /\ report.success_rate = 0
        /\ report.avg_time = 0

\* C9 as stated: a run whose work-item list is empty produces a report
\* with total 0 and success rate 0.
C9_EmptyRunReports ==
    (pc = "done" /\ files_to_process = <<>>) =>
        /\ report.written
        /\ report.total = 0
        /\ report.success_rate = 0

\* C9, amended: a run whose work-item list is empty ends without a crash
\* and without a report: run_batch_processing returns before any task is
\* created, generate_report and print_progress_summary are not called and
\* no report file is written.
C9_EmptyRunEndsWithoutReport ==
    (Selected /\ files_to_process = <<>>) =>
        /\ pc = "done"
        /\ task = <<>>
        /\ results = <<>>
        /\ ~report.written
        /\ ~summary.printed
        /\ \A t \in 1..MaxClock : ReportFilename(t) \notin output_dir

\* C9, witness: a run on an existing input directory without files has
\* ended.
C9_Witness ==
    /\ pc = "done"
    /\ models # <<>>
    /\ input_dir.exists
    /\ files_to_process = <<>>

\* C10: in every report the counts are consistent: successful + failed =
\* total = the number of results, and every result is in exactly one of
\* the two lists; the same holds for the printed summary.
C10_ReportCountsConsistent ==
    /\ report.written =>
          /\ report.total = Len(results)
          /\ Len(report.successful) + Len(report.failed) = report.total
          /\ \A k \in 1..Len(results) :
                (\E a \in 1..Len(report.successful) :
                     report.successful[a] = results[k])
                # (\E b \in 1..Len(report.failed) :
                     report.failed[b] = results[k])
    /\ summary.printed =>
          /\ summary.total = Len(results)
          /\ summary.successful + summary.failed = summary.total

\* C10, witness: a report and a summary with a non-zero number of
\* successes and of failures.
C10_Witness ==
    /\ report.written
    /\ summary.printed
    /\ Len(report.successful) >= 1
    /\ Len(report.failed) >= 1
    /\ summary.successful >= 1
    /\ summary.failed >= 1

\* The item holds a permit: it is inside the guarded body, or release()
\* has handed it a permit and it has not run again yet.
HoldsPermit(i) == InBody(i) \/ task[i].pc = "woken"

\* The result the returned item i produced, among the collected and the
\* queued results.
ResultOf(i) ==
    LET rs == results \o done
    IN  rs[CHOOSE k \in 1..Len(rs) : rs[k].filename = files_to_process[i]]

\* C11: every permit process_single_file acquires is released when the
\* call returns, with a success or with a failure: the permits of the
\* semaphore are max_parallel less one per item that holds one, a returned
\* item holds none, and once every submitted item has returned the
\* semaphore is back at max_parallel with nothing queued.
C11_PermitsReleased ==
    (Selected /\ files_to_process # <<>>) =>
        /\ sem_value = max_parallel - Cardinality({ i \in Items : HoldsPermit(i) })
        /\ (\A i \in Items : task[i].pc = "returned") =>
              sem_value = max_parallel /\ sem_waiters = <<>>

\* C11, witness: every item of a run of several items has returned, one
\* with a success and one with a failure, and the semaphore is full.
C11_Witness ==
    /\ Len(files_to_process) >= 2
    /\ \A i \in Items : task[i].pc = "returned"
    /\ \E i \in Items : ResultOf(i).success
    /\ \E i \in Items : ~ResultOf(i).success
    /\ sem_value = max_parallel

\* C12: the rate-limit delay is paid exactly by the successful items: a
\* returned item whose result is a success has slept its backend's
\* rate_limit_delay, a returned item whose result is a failure has not
\* slept, and no item sleeps before its write has returned.
C12_DelayPaidBySuccessOnly ==
    \A i \in Items :
        IF task[i].pc = "returned"
        THEN /\ ResultOf(i).success =>
                  /\ task[i].delay = task[i].model_config.rate_limit_delay
                  /\ task[i].delay > 0
             /\ ~ResultOf(i).success => task[i].delay = 0
        ELSE task[i].delay = 0

\* C12, witness: of two returned items one failed without a delay and the
\* other succeeded after its delay.
C12_Witness ==
    \E i, j \in Items :
        /\ task[i].pc = "returned" /\ task[j].pc = "returned"
        /\ ~ResultOf(i).success /\ task[i].delay = 0
        /\ ResultOf(j).success /\ task[j].delay > 0

\* C13: a successful item keeps its permit for the whole of its delay.
\* The items that are processing or sleeping never exceed max_parallel,
\* and a queued item is handed a permit only in a step in which an item
\* leaves the guarded body by returning (or when a spare permit is passed
\* on by a task that runs again): never while the holder only sleeps.
C13_PermitKeptWhileSleeping ==
    /\ [](Cardinality({ i \in Items : task[i].pc \in {"read", "call", "write"} })
            + Cardinality({ i \in Items : task[i].pc = "sleep" }) <= max_parallel)
    /\ [][ \A j \in Items :
              (j \in DOMAIN task' /\ task[j].pc = "waiting" /\ task'[j].pc = "woken") =>
                  \/ sem_value > 0
                  \/ \E i \in Items : InBody(i) /\ task'[i].pc = "returned" ]_vars

\* C13, witness: an item sleeps out its delay while another item is queued
\* for a permit.
C13_Witness ==
    \E i, j \in Items : task[i].pc = "sleep" /\ task[j].pc = "waiting"

\* No backend of all_models passes the mode filter and the filter by
\* installed client libraries.
NoBackendLeft ==
    \A k \in 1..Len(all_models) :
        ~ ( /\ mode \in {"all", all_models[k].provider}
            /\ IF all_models[k].provider = "gemini" THEN HAS_GEMINI
                                                    ELSE HAS_OPENAI )

\* C14: when no backend is left after the two filters, the construction
\* of the refiner raises and the run ends there: no work item is selected,
\* no task is created, no backend is assigned or called, nothing is
\* collected, and no output file, report or summary is produced.
C14_SetupFailureIsFatal ==
    (NoBackendLeft /\ pc # "main") =>
        /\ pc = "error"
        /\ models = <<>>
        /\ files_to_process = <<>>
        /\ task = <<>>
        /\ rotation_log = <<>>
        /\ results = <<>> /\ done = <<>>
        /\ output_dir = {}
        /\ ~report.written
        /\ ~summary.printed

\* C14, witness: the construction has raised on an input directory that
\* holds files, in a mode whose client library is missing although the
\* other one is installed.
C14_Witness ==
    /\ pc = "error"
    /\ NoBackendLeft
    /\ HAS_GEMINI # HAS_OPENAI
    /\ input_dir.exists /\ input_dir.files # <<>>

\* C15: an interrupt that arrives while the results are collected stops
\* the run without a report: generate_report and print_progress_summary
\* are not run, no report file is in the output directory, and the results
\* collected so far stay where they are, unreported.
C15_InterruptStopsWithoutReport ==
    pc = "interrupted" =>
        /\ ~report.written
        /\ ~summary.printed
        /\ \A t \in 1..MaxClock : ReportFilename(t) \notin output_dir
        /\ \A i \in Items : task[i].pc \in {"returned", "cancelled"}

\* C15, witness: the interrupt arrived after a result had been collected
\* and while another item was in flight.
C15_Witness ==
    /\ pc = "interrupted"
    /\ results # <<>>
    /\ \E i \in Items : task[i].pc = "cancelled"

\* The names 'refined_<short name>_<base name>_<timestamp>.txt' that the
\* work item f can get from the backend named short.
OutputNames(short, f) ==
    { [parts |-> <<"refined">> \o short \o f.parts \o Timestamp(t), ext |-> ".txt"]
        : t \in 1..MaxClock }

\* C16: one output file per successfully processed input.  Every result
\* with success = true names an output file that is in the output
\* directory, that is named refined_<backend short name>_<base name>_
\* <timestamp>.txt for the result's backend and file, and that is the only
\* file of the directory with the item's base name; and two distinct work
\* items of the run never have the same output name.
C16_OneOutputPerSuccess ==
    LET rs == results \o done
        shorts == { models[j].short_name : j \in 1..Len(models) }
    IN  /\ \A k \in 1..Len(rs) :
              rs[k].success =>
                  /\ rs[k].output_file \in output_dir
                  /\ rs[k].output_file \in OutputNames(rs[k].model_used, rs[k].filename)
                  /\ rs[k].model_used \in shorts
                  /\ Cardinality({ f \in output_dir :
                         \E sh \in shorts : f \in OutputNames(sh, rs[k].filename) }) = 1
        /\ \A k, l \in 1..Len(rs) :
              (k # l /\ rs[k].success /\ rs[l].success) =>
                  rs[k].output_file # rs[l].output_file
        /\ \A i, j \in Items :
              (i # j /\ task[i].output_filename # NoFile) =>
                  task[i].output_filename # task[j].output_filename

\* C16, witness: two items were processed successfully by the same backend
\* at the same reading of the clock, and both files are written.
C16_Witness ==
    /\ Len(results) = 2
    /\ results[1].success /\ results[2].success
    /\ results[1].model_used = results[2].model_used
    /\ Timestamp(task[1].start_time) = Timestamp(task[2].start_time)
    /\ {results[1].output_file, results[2].output_file} \subseteq output_dir

\* C17: the result collection is append-only.  Every step leaves results
\* unchanged or appends one ProcessingResult at its end, the entries
\* already there staying as and where they are; and the report and the
\* summary are produced from the complete collection in steps that do not
\* change it.
C17_ResultsAppendOnly ==
    [][ /\ \/ results' = results
           \/ /\ Len(results') = Len(results) + 1
              /\ SubSeq(results', 1, Len(results)) = results
              /\ results'[Len(results')].filename \in
                     { files_to_process[i] : i \in 1..Len(files_to_process) }
        /\ (report' # report \/ summary' # summary) =>
              /\ results' = results
              /\ Len(results) = Len(files_to_process) ]_vars

\* C17, witness: a collection of two different results has been reported.
C17_Witness ==
    /\ Len(results) >= 2
    /\ results[1].success # results[2].success
    /\ report.written
    /\ summary.printed

\* C18: results are collected in completion order.  In the step in which
\* an item's process_single_file returns, its result is placed behind the
\* results of all the items that returned before it (collected or still
\* queued), and no other step changes that order: so the result of the
\* item that returned first is first in results, wherever the items are
\* in files_to_process.
C18_CompletionOrder ==
    [][ IF \E i \in Items : task[i].pc # "returned" /\ task'[i].pc = "returned"
        THEN \E i \in Items :
                /\ task[i].pc # "returned" /\ task'[i].pc = "returned"
                /\ Len(results' \o done') = Len(results \o done) + 1
                /\ SubSeq(results' \o done', 1, Len(results \o done)) = results \o done
                /\ (results' \o done')[Len(results' \o done')].filename
                       = files_to_process[i]
        ELSE results' \o done' = results \o done ]_vars

\* C18, witness: the second item of the work list returned first, and its
\* result is the first of results.
C18_Witness ==
    /\ Len(results) = 2
    /\ Len(files_to_process) = 2
    /\ results[1].filename = files_to_process[2]
    /\ results[2].filename = files_to_process[1]

\* The items that have entered the guarded body so far.
Entered == { i \in Items : task[i].pc \notin {"created", "waiting", "woken"} }

\* C19: the backend is bound when the permit is acquired.  An item that
\* has not entered the guarded body has no backend, an item that has
\* entered it has one, and in every state current_model_index is the
\* number of items that have entered so far modulo len(models).
C19_BoundAtAcquisition ==
    (Selected /\ files_to_process # <<>>) =>
        /\ \A i \in Items : (i \in Entered) <=> (task[i].model_config # NoModel)
        /\ \A i \in Items :
              i \in Entered => \E k \in 1..Len(models) : task[i].model_config = models[k]
        /\ current_model_index = Cardinality(Entered) % Len(models)

\* C19, witness: with several backends, one item is in the body with its
\* backend while another one is queued without a backend.
C19_Witness ==
    /\ Len(models) >= 2
    /\ current_model_index = 1
    /\ \E i, j \in Items :
          /\ InBody(i) /\ task[i].model_config = models[1]
          /\ task[j].pc = "waiting" /\ task[j].model_config = NoModel

\* The fetches of the scraper so far, in order.
Fetches == SelectSeq(scraper.log, LAMBDA e : e.event = "fetch")

\* The number of entries of the bucket b for the URL u.
EntriesFor(b, u) == Cardinality({ k \in 1..Len(b) : b[k].url = u })

\* The for loop of the scraper has run through the whole list.
LoopDone == scraper.i > Len(urls)

\* What C20 says of every URL apart from the test for empty content: the
\* k-th fetch is that of urls[k]; a fetched URL has one entry in one of
\* the three buckets and a URL not yet fetched has none; a fetch that
\* raised is in failed; content that is not empty is in successful with
\* its file written, or in failed when the write raised; and after the
\* loop the three buckets together have len(urls) entries.
ThreeBuckets ==
    LET fs == Fetches
        r == scraper.results
    IN  /\ Len(fs) <= Len(urls)
        /\ \A k \in 1..Len(urls) :
              LET u == urls[k]
                  n == EntriesFor(r.successful, u) + EntriesFor(r.failed, u)
                         + EntriesFor(r.empty, u)
              IN  IF k <= Len(fs)
                  THEN /\ fs[k].url = u
                       /\ n = 1
                       /\ fs[k].raised => EntriesFor(r.failed, u) = 1
                       /\ EntriesFor(r.successful, u) = 1 =>
                              [parts |-> <<"gsap">> \o extract_topic_name(u),
                               ext |-> ".txt"] \in scraper.files
                  ELSE n = 0
        /\ LoopDone =>
              Len(r.successful) + Len(r.failed) + Len(r.empty) = Len(urls)

\* C20 as stated: every URL ends in exactly one of the three buckets, and
\* a fetch that returns no markdown or fewer than 100 non-blank characters
\* goes to empty, not to failed, and writes no file.
C20_EmptyByNonBlankCount ==
    /\ ThreeBuckets
    /\ \A k \in 1..Len(Fetches) :
          LET e == Fetches[k]
          IN  (~e.raised /\ (e.markdown.none \/ e.markdown.text < 100)) =>
                  /\ EntriesFor(scraper.results.empty, e.url) = 1
                  /\ ScrapedFilename(e.url) \notin scraper.files

\* C20, amended: every URL ends in exactly one of the three buckets, and
\* a fetch that returns no markdown, or markdown of fewer than 100
\* characters once the whitespace at its two ends is stripped, goes to
\* empty, not to failed, and writes no file; any other content goes to
\* successful or, when the write raises, to failed.
C20_EmptyByStrippedLength ==
    /\ ThreeBuckets
    /\ \A k \in 1..Len(Fetches) :
          LET e == Fetches[k]
              md == e.markdown
              short == \/ md.none
                       \/ md.text = 0
                       \/ md.text + md.inside < 100
          IN  ~e.raised =>
                  /\ short =>
                        /\ EntriesFor(scraper.results.empty, e.url) = 1
                        /\ ScrapedFilename(e.url) \notin scraper.files
                  /\ ~short => EntriesFor(scraper.results.empty, e.url) = 0

\* C20, witness: the loop has ended with one URL in empty for its short
\* content and the other in successful, its content being of fewer than
\* 100 non-blank characters and of more than 100 characters with the
\* whitespace between them.
C20_Witness ==
    /\ LoopDone
    /\ Len(scraper.results.empty) = 1
    /\ Len(scraper.results.successful) = 1
    /\ \E k \in 1..Len(Fetches) :
          /\ Fetches[k].markdown.text < 100
          /\ EntriesFor(scraper.results.successful, Fetches[k].url) = 1

\* C21: get_files_to_process selects only files of the input directory
\* whose name ends in .txt and does not start with refined_, each at most
\* once, and selects nothing when the input directory does not exist;
\* with an empty selection no task is created, no backend is assigned or
\* called and nothing is collected or written.
C21_SelectsOnlyPlainTxt ==
    Selected =>
        /\ \A j \in 1..Len(files_to_process) :
              LET f == files_to_process[j]
              IN  /\ \E k \in 1..Len(input_dir.files) : input_dir.files[k] = f
                  /\ f.ext = ".txt"
                  /\ ~(Len(f.parts) >= 2 /\ f.parts[1] = "refined")
                  /\ \A l \in 1..Len(files_to_process) :
                        files_to_process[l] = f => l = j
        /\ ~input_dir.exists => files_to_process = <<>>
        /\ files_to_process = <<>> =>
              /\ task = <<>>
              /\ rotation_log = <<>>
              /\ results = <<>> /\ done = <<>>
              /\ output_dir = {}

\* C21, witness: from a directory that holds a.txt next to a name without
\* .txt and a name with the marker, a.txt was selected and processed.
C21_Witness ==
    /\ Selected
    /\ Len(input_dir.files) > Len(files_to_process)
    /\ files_to_process # <<>>
    /\ Len(results) = Len(files_to_process)

RECURSIVE SumOfTotals(_, _)
\* The sum of the totals of the breakdown stats over the backends of S.
SumOfTotals(stats, S) ==
    IF S = {} THEN 0
    ELSE LET m == CHOOSE x \in S : TRUE
         IN  stats[m].total + SumOfTotals(stats, S \ {m})

\* C22: the per-backend breakdown of a report is consistent with the
\* results.  Its backends are the short names the results name; for every
\* one of them total = successful + failed; the totals add up to the
\* number of results; and every item, failed or not, is counted under the
\* backend that the rotation assigned to it.
C22_BreakdownConsistent ==
    report.written =>
        LET stats == report.model_stats
            names == { results[k].model_used : k \in 1..Len(results) }
        IN  /\ DOMAIN stats = names
            /\ \A m \in DOMAIN stats :
                  /\ stats[m].total = stats[m].successful + stats[m].failed
                  /\ stats[m].failed =
                        Cardinality({ i \in Items :
                            /\ task[i].model_config.short_name = m
                            /\ ~ResultOf(i).success })
                  /\ stats[m].successful =
                        Cardinality({ i \in Items :
                            /\ task[i].model_config.short_name = m
                            /\ ResultOf(i).success })
            /\ SumOfTotals(stats, DOMAIN stats) = Len(results)

\* C22, witness: the report of a run in which two backends were used, one
\* for an item that failed and one for an item that succeeded.
C22_Witness ==
    /\ report.written
    /\ Cardinality(DOMAIN report.model_stats) = 2
    /\ \E m \in DOMAIN report.model_stats :
          report.model_stats[m].failed = 1 /\ report.model_stats[m].successful = 0
    /\ \E m \in DOMAIN report.model_stats :
          report.model_stats[m].successful = 1 /\ report.model_stats[m].failed = 0

\* C23: the report is generated at most once and only after every
\* submitted item has its result in the collection.  While generate_report
\* runs, and ever after, every item has returned and results holds one
\* result per item: no item is queued for a permit, in processing or in
\* its delay; generate_report is entered from the collection loop only,
\* and a report once written is not written again.
C23_ReportOnceAfterAllResults ==
    /\ []((pc \in {"report", "summary"} \/ report.written) =>
            /\ \A i \in Items : task[i].pc = "returned"
            /\ done = <<>>
            /\ Len(results) = Len(files_to_process)
            /\ \A i \in Items : ResultsFor(results, files_to_process[i]) = 1)
    /\ [][ /\ (pc # "report" /\ pc' = "report") =>
                 (pc = "collect" /\ ~report.written)
           /\ report.written => (report' = report /\ pc' # "report") ]_vars

\* C23, witness: generate_report is about to run on the results of two
\* items, the second of which had to wait for its permit.
C23_Witness ==
    /\ pc = "report"
    /\ Len(results) = 2
    /\ max_parallel < Len(files_to_process)

\* C24: the dispatch loop is free of deadlock and terminates.  Every run
\* in the end is over, and it is over with every submitted item having
\* entered the guarded body with a permit and a backend, every item having
\* returned its result, all results collected and generate_report reached
\* (the run has gone on to the report, whether or not its write then
\* failed), also when the items outnumber the permits.
C24_DispatchTerminates ==
    <>( /\ pc \in {"done", "error"}
        /\ \A i \in Items :
              /\ task[i].pc = "returned"
              /\ task[i].model_config # NoModel
        /\ Len(results) = Len(files_to_process)
        /\ done = <<>>
        /\ files_to_process # <<>> => (report.written \/ pc = "error") )

\* C24, witness: a run with more items than permits is over, with all its
\* permits back.
C24_Witness ==
    /\ pc = "done"
    /\ Len(files_to_process) > max_parallel
    /\ summary.printed
    /\ sem_value = max_parallel

\* The number of get_next_model calls so far that handed out models[k].
Assigned(k) ==
    Cardinality({ n \in 1..Len(rotation_log) : rotation_log[n].model = models[k] })

\* C25: round-robin balance.  In every state the numbers of assignments
\* of any two backends differ by at most one, a backend earlier in the
\* list never having fewer than a later one, and together they are the
\* number of assignments made; an assignment counts whether or not its
\* item then succeeds.
C25_RoundRobinBalance ==
    /\ \A k, l \in 1..Len(models) :
          /\ Assigned(k) - Assigned(l) <= 1
          /\ k < l => Assigned(k) >= Assigned(l)
    /\ \A n \in 1..Len(rotation_log) :
          \E k \in 1..Len(models) : rotation_log[n].model = models[k]
    /\ \A i \in Items :
          task[i].model_config # NoModel =>
              \E n \in 1..Len(rotation_log) :
                  rotation_log[n] = [item |-> i, model |-> task[i].model_config]

\* C25, witness: with several backends more assignments were made than
\* there are backends, so that the first backend has two and the last one.
C25_Witness ==
    /\ Len(models) >= 2
    /\ Len(rotation_log) > Len(models)
    /\ Assigned(1) = 2
    /\ Assigned(Len(models)) = 1

\* C26: every ProcessingResult is well formed.  success = true comes with
\* an output file and without an error, success = false with an error and
\* without an output file, and model_used is the short name of the backend
\* that the rotation handed to the result's item.
C26_ResultWellFormed ==
    LET rs == results \o done
    IN  \A k \in 1..Len(rs) :
            /\ rs[k].success \in BOOLEAN
            /\ rs[k].success =>
                  rs[k].output_file # NoFile /\ rs[k].error = NoError
            /\ ~rs[k].success =>
                  rs[k].error # NoError /\ rs[k].output_file = NoFile
            /\ \E n \in 1..Len(rotation_log) :
                  /\ files_to_process[rotation_log[n].item] = rs[k].filename
                  /\ rotation_log[n].model.short_name = rs[k].model_used

\* C26, witness: the results of a run hold a success of one backend and a
\* failure of another.
C26_Witness ==
    /\ Len(results) = 2
    /\ results[1].success
    /\ ~results[2].success
    /\ results[1].model_used # results[2].model_used

\* The position of the backend m in the configured list.
ConfiguredPosition(m) == CHOOSE j \in 1..Len(all_models) : all_models[j] = m

\* The backend c is kept by the mode and by the installed client libraries.
Kept(c) ==
    /\ mode = "gemini" => c.provider = "gemini"
    /\ mode = "openrouter" => c.provider = "openrouter"
    /\ c.provider = "gemini" => HAS_GEMINI
    /\ c.provider = "openrouter" => HAS_OPENAI

\* C27: the backend list is fixed at construction and keeps the
\* configured order.  Once the refiner is constructed, its list holds
\* exactly the configured backends that the mode keeps (gemini: the
\* gemini-provider ones, openrouter: the openrouter-provider ones, any
\* other mode: all) and whose client library is installed, each once and
\* in the configured order; the construction fails exactly when none is
\* kept; and no later step changes the list.
C27_BackendListFixed ==
    /\ [](pc # "main" =>
            /\ models = <<>> <=> (\A j \in 1..Len(all_models) : ~Kept(all_models[j]))
            /\ models = <<>> => pc = "error"
            /\ \A j \in 1..Len(all_models) :
                  Kept(all_models[j]) <=>
                      \E k \in 1..Len(models) : models[k] = all_models[j]
            /\ \A k, l \in 1..Len(models) :
                  k < l => ConfiguredPosition(models[k]) < ConfiguredPosition(models[l]))
    /\ [][ pc # "main" => models' = models ]_vars

\* C27, witness: in mode all without the Gemini library the list is the
\* four OpenRouter backends, and get_next_model has been called on it.
C27_Witness ==
    /\ mode = "all"
    /\ ~HAS_GEMINI
    /\ Len(models) = 4
    /\ models[1] = all_models[2] /\ models[4] = all_models[5]
    /\ rotation_log # <<>>

\* C28: in the sequential scraper a delay separates every two consecutive
\* page fetches: a fetch that is not the last of the list is followed by
\* the sleep before the next fetch, whatever its outcome.
C28_DelayBetweenFetches ==
    \A n \in 1..Len(scraper.log) :
        (scraper.log[n].event = "fetch" /\ n < Len(scraper.log)) =>
            scraper.log[n + 1].event = "sleep"

\* The models of the comparison whose API call is in flight.
InFlight == { k \in 1..Len(comparison.task) : comparison.task[k].pc = "call" }

\* C29: the API calls of the model comparison overlap under the semaphore
\* of size 3: never more than three are in flight, and while a call is in
\* flight, a permit is free and a model has not been started, the call of a
\* further model can start, so that two or more are in flight at once.
C29_CallsOverlap ==
    /\ Cardinality(InFlight) <= SemaphoreSize
    /\ ( /\ InFlight # {}
         /\ comparison.sem_value > 0
         /\ \E k \in 1..Len(comparison.task) : comparison.task[k].pc = "created" )
       => ENABLED (\E k \in 1..Len(comparison.task) : EnterModel(k))

\* The number of entries of a result list that belong to a model.
OutcomesFor(rs, model) == Len(SelectSeq(rs, LAMBDA r : r.model = model))

\* gather has returned and the loop of lines 225-233 has run.
GatherReturned == comparison.pc \in {"report", "summary", "done", "error"}

\* C30: once gather has returned, the two result lists of the model
\* comparison hold exactly one outcome per configured model, so that their
\* lengths add up to len(models); every model was processed; a model whose
\* API call or file write raised is in failed_results with its error, and
\* every other model is in successful_results.
C30_OneOutcomePerModel ==
    GatherReturned =>
        /\ Len(comparison.successful_results) + Len(comparison.failed_results)
               = Len(ComparisonModels)
        /\ \A k \in 1..Len(ComparisonModels) :
              LET m == ComparisonModels[k]
                  t == comparison.task[k]
              IN  /\ t.pc = "returned"
                  /\ OutcomesFor(comparison.successful_results, m)
                         + OutcomesFor(comparison.failed_results, m) = 1
                  /\ t.raised # "" =>
                         \E i \in 1..Len(comparison.failed_results) :
                             /\ comparison.failed_results[i].model = m
                             /\ comparison.failed_results[i].error = t.raised
                  /\ t.raised = "" =>
                         OutcomesFor(comparison.successful_results, m) = 1

\* Witness of C30: gather has returned after an API call raised for one
\* model, a file write raised for another, and a model started after a
\* failed one was processed with success.
C30_Witness ==
    /\ GatherReturned
    /\ \E k \in 1..Len(comparison.task) : comparison.task[k].raised = "api error"
    /\ \E k \in 1..Len(comparison.task) : comparison.task[k].raised = "write error"
    /\ \E j, k \in 1..Len(comparison.task) :
          /\ j < k
          /\ comparison.task[j].raised # ""
          /\ comparison.task[k].result.status = "success"

====
